---- MODULE Spec2Model ----
(***************************************************************************)
(* Model of the tool-call loop of gemini_weather_email.js: main(), the two *)
(* tool implementations getWeatherTool and sendEmailTool, the registry     *)
(* toolsMap and the helpers extractFunctionCalls and                       *)
(* buildFunctionResponsePart.                                              *)
(*                                                                         *)
(* JavaScript values are tagged records [t |-> type, v |-> text]; texts    *)
(* that the code takes apart (the weather service's answer) are sequences  *)
(* of one-character strings, the degree sign being written "deg".          *)
(***************************************************************************)
EXTENDS Integers, Sequences, FiniteSets, TLC

VARIABLES
    env,            \* process.env: the set of mail settings that are present
    argv,           \* the parsed command line
    history,        \* let history
    resp,           \* let resp
    safetyCounter,  \* let safetyCounter
    idx,            \* position of the for..of loop in calls (1-based)
    pc,             \* where main() is: "generate", "loop", "for", "done", "failed"
    err,            \* message of the error that rejected main(), "" if none
    stdout,         \* what console.log printed, as a sequence of lines
    stderr,         \* what console.error printed
    exitCode,       \* process exit code, -1 while running
    gatewayCalls,   \* observer: number of model.generateContent calls made
    batches,        \* observer: number of batches whose for..of loop was entered
    batchStart,     \* observer: history when the current batch was entered
    execLog,        \* observer: executor invocations, in order, with outcome
    batchExec,      \* observer: executor invocations made for the current batch
    requested,      \* observer: function calls of all batches entered so far
    weatherData,    \* observer: response.data of the latest axios.get, <<>> if none
    httpGets,       \* observer: number of axios.get requests issued
    smtpSends       \* observer: number of transporter.sendMail submissions

vars == <<env, argv, history, resp, safetyCounter, idx, pc, err, stdout, stderr,
          exitCode, gatewayCalls, batches, batchStart, execLog, batchExec, requested,
          weatherData, httpGets, smtpSends>>

(***************************************************************************)
(* Bounds of the model.                                                    *)
(***************************************************************************)
\* longest batch of function calls a modelled response carries
MaxBatch == 2
\* most function calls the modelled gateway requests in one run
MaxToolCalls == 7

(***************************************************************************)
(* JavaScript values.                                                      *)
(***************************************************************************)
Str(s) == [t |-> "string", v |-> s]
Num(s) == [t |-> "number", v |-> s]
Undefined == [t |-> "undefined", v |-> ""]

\* JavaScript truthiness, as used by !x and x || y
Truthy(x) ==
    /\ x.t # "undefined"
    /\ ~(x.t = "string" /\ x.v = "")
    /\ ~(x.t = "number" /\ x.v \in {"0", "NaN"})

\* args.key of a destructured parameter object: undefined when absent
Arg(args, key) == IF key \in DOMAIN args THEN args[key] ELSE Undefined

EmptyArgs == [k \in {} |-> Undefined]

(***************************************************************************)
(* Text helpers on sequences of characters.                                *)
(***************************************************************************)
IsDigit(c) == c \in {"0", "1", "2", "3", "4", "5", "6", "7", "8", "9"}
IsSign(c) == c \in {"-", "+"}
IsSpace(c) == c \in {" ", "\n"}

DigitVal(c) ==
    CASE c = "0" -> 0 [] c = "1" -> 1 [] c = "2" -> 2 [] c = "3" -> 3
      [] c = "4" -> 4 [] c = "5" -> 5 [] c = "6" -> 6 [] c = "7" -> 7
      [] c = "8" -> 8 [] c = "9" -> 9

\* String.prototype.trim
RECURSIVE TrimLeft(_)
TrimLeft(s) ==
    IF s # <<>> /\ IsSpace(Head(s)) THEN TrimLeft(Tail(s)) ELSE s

RECURSIVE TrimRight(_)
TrimRight(s) ==
    IF s # <<>> /\ IsSpace(s[Len(s)])
    THEN TrimRight(SubSeq(s, 1, Len(s) - 1))
    ELSE s

\* mutant: only leading white space is removed
TrimKeepsTail(s) == TrimLeft(s)

Trim(s) == TrimLeft(TrimRight(s))

\* first index >= i of s that holds no digit (Len(s)+1 if none): \d+ is greedy
RECURSIVE DigitsEnd(_, _)
DigitsEnd(s, i) ==
    IF i <= Len(s) /\ IsDigit(s[i]) THEN DigitsEnd(s, i + 1) ELSE i

\* first index >= i of s that holds no white space: \s*
RECURSIVE SpacesEnd(_, _)
SpacesEnd(s, i) ==
    IF i <= Len(s) /\ IsSpace(s[i]) THEN SpacesEnd(s, i + 1) ELSE i

\* value of a run of digits
RECURSIVE DigitsValue(_)
DigitsValue(ds) ==
    IF ds = <<>> THEN 0
    ELSE 10 * DigitsValue(SubSeq(ds, 1, Len(ds) - 1)) + DigitVal(ds[Len(ds)])

\* Number("+15"), Number("-3"), Number("27")
NumberOf(s) ==
    IF IsSign(Head(s))
    THEN (IF Head(s) = "-" THEN 0 - DigitsValue(Tail(s)) ELSE DigitsValue(Tail(s)))
    ELSE DigitsValue(s)

(***************************************************************************)
(* /([-+]?\d+)\s*°C/i  (getWeatherTool)                                    *)
(***************************************************************************)
\* where the digits of an attempt at index i start
TempDigitsFrom(s, i) == IF IsSign(s[i]) THEN i + 1 ELSE i

\* the pattern matches s starting at index i
TempMatchesAt(s, i) ==
    LET d == TempDigitsFrom(s, i)
        e == DigitsEnd(s, d)
        k == SpacesEnd(s, e)
    IN  /\ e > d
        /\ k + 1 <= Len(s)
        /\ s[k] = "deg"
        /\ s[k + 1] \in {"C", "c"}

\* raw.match(...): the leftmost match as [from, numTo, to], or [from |-> 0]
TempMatch(s) ==
    LET starts == {i \in 1..Len(s) : TempMatchesAt(s, i)}
    IN  IF starts = {} THEN [from |-> 0, numTo |-> 0, to |-> 0]
        ELSE LET i == CHOOSE x \in starts : \A y \in starts : x <= y
                 e == DigitsEnd(s, TempDigitsFrom(s, i))
             IN  [from |-> i, numTo |-> e - 1, to |-> SpacesEnd(s, e) + 1]

\* raw.replace(/([-+]?\d+\s*°C)/i, '')
TempRemoved(s) ==
    LET m == TempMatch(s)
    IN  IF m.from = 0 THEN s
        ELSE SubSeq(s, 1, m.from - 1) \o SubSeq(s, m.to + 1, Len(s))

NaN == [nan |-> TRUE, n |-> 0]
Finite(n) == [nan |-> FALSE, n |-> n]

\* the object getWeatherTool hands to GetWeatherResultSchema.parse
WeatherObject(city, data) ==
    LET raw == Trim(data)
        tempMatch == TempMatch(raw)
        degree_c == IF tempMatch.from # 0
                    THEN Finite(NumberOf(SubSeq(raw, tempMatch.from, tempMatch.numTo)))
                    ELSE NaN
        condition == Trim(TempRemoved(raw))
    IN  [city |-> city,
         degree_c |-> degree_c,
         condition |-> IF condition # <<>>
                       THEN [defined |-> TRUE, s |-> condition]
                       ELSE [defined |-> FALSE, s |-> <<>>]]

\* GetWeatherResultSchema accepts the object: z.string(), z.number() (which
\* rejects NaN), z.string().optional()
GetWeatherResultSchemaAccepts(obj) ==
    /\ obj.city.t = "string"
    /\ ~obj.degree_c.nan

(***************************************************************************)
(* SendEmailParamsSchema and the mail configuration (sendEmailTool)        *)
(***************************************************************************)
\* z.string().email(): of the recipients the model gateway is modelled to
\* produce, these are the ones shaped like an e-mail address
IsEmail(s) == s \in {"a@b.com", "ops@example.org"}

\* mutant: the subject is not looked at
SendEmailParamsSchemaAcceptsAnySubject(args) ==
    /\ Arg(args, "toEmail").t = "string" /\ IsEmail(Arg(args, "toEmail").v)
    /\ Arg(args, "body").t = "string" /\ Arg(args, "body").v # ""

\* SendEmailParamsSchema.parse({toEmail, subject, body}) does not throw
SendEmailParamsSchemaAccepts(args) ==
    /\ Arg(args, "toEmail").t = "string" /\ IsEmail(Arg(args, "toEmail").v)
    /\ Arg(args, "subject").t = "string" /\ Arg(args, "subject").v # ""
    /\ Arg(args, "body").t = "string" /\ Arg(args, "body").v # ""

MailSettings == {"SMTP_HOST", "SMTP_PORT", "SMTP_USER", "SMTP_PASS", "FROM_EMAIL"}

\* mutant: only the host is looked at
SmtpConfigMissingHostOnly(e) == "SMTP_HOST" \notin e

\* !SMTP_HOST || !SMTP_PORT || !SMTP_USER || !SMTP_PASS || !FROM_EMAIL
SmtpConfigMissing(e) == \E k \in MailSettings : k \notin e

(***************************************************************************)
(* toolsMap and the `in` test of main()                                    *)
(***************************************************************************)
\* own keys of toolsMap
ToolNames == {"get_weather", "send_email"}

\* properties toolsMap inherits from Object.prototype (those the model uses):
\* toString is a function, __proto__ is an object
InheritedFunctions == {"toString"}
InheritedNonFunctions == {"__proto__"}

\* name in toolsMap: true for own and for inherited properties
InToolsMap(name) ==
    name \in ToolNames \cup InheritedFunctions \cup InheritedNonFunctions

(***************************************************************************)
(* Responses of model.generateContent                                      *)
(***************************************************************************)
TextPart(s) == [text |-> s]
CallPart(c) == [functionCall |-> c]

FunctionCall(name, args) == [name |-> name, args |-> args]

WeatherCalls ==
    {FunctionCall("get_weather", a) :
        a \in {[city |-> Str("Paris")], [city |-> Str("")],
               [city |-> Num("42")], EmptyArgs}}

Mail(to, subject, body) ==
    [toEmail |-> Str(to), subject |-> Str(subject), body |-> Str(body)]

EmailCalls ==
    {FunctionCall("send_email", a) :
        a \in {Mail("a@b.com", "Weather", "Partly cloudy, 15 C"),
               Mail("nobody", "Weather", "Partly cloudy, 15 C"),
               Mail("a@b.com", "", "Partly cloudy, 15 C"),
               Mail("a@b.com", "Weather", "")}}

\* a call without args (call.args || {}), to names that are no key of toolsMap
OtherCalls ==
    {[name |-> n] : n \in {"toString", "__proto__", "get_forecast"}}

AllCalls == WeatherCalls \cup EmailCalls \cup OtherCalls

\* the calls that longer batches are built from
CoreCalls ==
    {FunctionCall("get_weather", [city |-> Str("Paris")]),
     FunctionCall("send_email", Mail("a@b.com", "Weather", "Partly cloudy, 15 C")),
     [name |-> "get_forecast"]}

RECURSIVE SeqsOf(_, _)
SeqsOf(S, n) ==
    IF n = 0 THEN {<<>>}
    ELSE {Append(q, x) : q \in SeqsOf(S, n - 1), x \in S}

CallBatches ==
    {<<c>> : c \in AllCalls}
      \cup UNION {SeqsOf(CoreCalls, n) : n \in 2..MaxBatch}

RECURSIVE MapParts(_)
MapParts(cs) ==
    IF cs = <<>> THEN <<>> ELSE <<CallPart(Head(cs))>> \o MapParts(Tail(cs))

WithParts(ps) == [shape |-> "parts", parts |-> ps]

\* a response holds a candidate with parts, or lacks candidates, content or parts
Responses ==
    {[shape |-> sh, parts |-> <<>>] : sh \in {"noCandidates", "noContent", "noParts"}}
      \cup {WithParts(ps) : ps \in {<<>>, <<TextPart("Email sent.")>>, <<TextPart("")>>,
                                    <<TextPart("Email sent."), TextPart("Bye.")>>}}
      \cup {WithParts(MapParts(b)) : b \in CallBatches}
      \cup {WithParts(<<TextPart("Let me check.")>> \o MapParts(<<c>>)) : c \in CoreCalls}

\* resp?.response?.candidates?.[0]?.content?.parts || []
PartsOf(r) == IF r.shape = "parts" THEN r.parts ELSE <<>>

\* mutant: a response that carries text is taken to carry no function call
extractFunctionCallsUnlessText(r) ==
    LET parts == PartsOf(r)
        F[i \in 0..Len(parts)] ==
            IF i = 0 THEN <<>>
            ELSE IF "functionCall" \in DOMAIN parts[i]
                 THEN Append(F[i - 1], parts[i].functionCall)
                 ELSE F[i - 1]
    IN  IF \E i \in 1..Len(parts) : "text" \in DOMAIN parts[i]
        THEN <<>>
        ELSE F[Len(parts)]

\* extractFunctionCalls(resp)
extractFunctionCalls(r) ==
    LET parts == PartsOf(r)
        F[i \in 0..Len(parts)] ==
            IF i = 0 THEN <<>>
            ELSE IF "functionCall" \in DOMAIN parts[i]
                 THEN Append(F[i - 1], parts[i].functionCall)
                 ELSE F[i - 1]
    IN  F[Len(parts)]

\* mutant: the response part does not carry the name of the tool
buildFunctionResponsePartUnnamed(name, responseObj) ==
    [functionResponse |-> [name |-> "tool", response |-> responseObj]]

\* buildFunctionResponsePart(name, responseObj)
buildFunctionResponsePart(name, responseObj) ==
    [functionResponse |-> [name |-> name, response |-> responseObj]]

\* mutant: the joined text is printed as it is, without the fallback
FinalTextNoDefault(r) ==
    LET parts == PartsOf(r)
        J[i \in 0..Len(parts)] ==
            IF i = 0 THEN ""
            ELSE IF "text" \in DOMAIN parts[i] /\ parts[i].text # ""
                 THEN (IF J[i - 1] = "" THEN parts[i].text
                       ELSE J[i - 1] \o "\n" \o parts[i].text)
                 ELSE J[i - 1]
    IN  J[Len(parts)]

\* parts.map(p => p.text).filter(Boolean).join('\n') || 'Done.'
FinalText(r) ==
    LET parts == PartsOf(r)
        J[i \in 0..Len(parts)] ==
            IF i = 0 THEN ""
            ELSE IF "text" \in DOMAIN parts[i] /\ parts[i].text # ""
                 THEN (IF J[i - 1] = "" THEN parts[i].text
                       ELSE J[i - 1] \o "\n" \o parts[i].text)
                 ELSE J[i - 1]
    IN  IF J[Len(parts)] # "" THEN J[Len(parts)] ELSE "Done."

(***************************************************************************)
(* The environment of a run                                                *)
(***************************************************************************)
\* process.env: every mail setting present, one of them absent, or none
Environments ==
    {MailSettings, {}} \cup {MailSettings \ {k} : k \in MailSettings}

\* command lines: --city and --to are demanded, --subject is optional
CommandLines ==
    {[city |-> "Paris", to |-> "a@b.com", subject |-> ""]}

\* answers of the weather service (response.data)
PartlyCloudy15 ==
    <<"P", "a", "r", "t", "l", "y", " ", "c", "l", "o", "u", "d", "y", " ",
      "+", "1", "5", "deg", "C">>
UnknownLocation ==
    <<"U", "n", "k", "n", "o", "w", "n", " ", "l", "o", "c", "a", "t", "i", "o", "n">>
WeatherTexts == {PartlyCloudy15, UnknownLocation}

(***************************************************************************)
(* main()                                                                  *)
(***************************************************************************)
\* the template literal userPrompt
userPrompt(a) ==
    "City: " \o a.city \o "\nRecipient: " \o a.to \o "\n"
      \o (IF a.subject # "" THEN "Preferred subject: " \o a.subject \o "\n" ELSE "")
      \o "Please email the current weather for the city to the recipient."

\* the limit of if (++safetyCounter > 6)
MaxIterations == 6

\* mutant: the check lets one more pass through
BoundExceededLate(counter) == counter > MaxIterations + 1

BoundExceeded(counter) == counter > MaxIterations

NoResponse == [shape |-> "unset", parts |-> <<>>]

\* function calls requested so far that returned (each left two turns)
CallsDone == (Len(history) - 1) \div 2

Init ==
    /\ env \in Environments
    /\ argv \in CommandLines
    /\ history = <<[role |-> "user", parts |-> <<TextPart(userPrompt(argv))>>]>>
    /\ resp = NoResponse
    /\ safetyCounter = 0
    /\ idx = 0
    /\ pc = "generate"
    /\ err = ""
    /\ stdout = <<>>
    /\ stderr = <<>>
    /\ exitCode = -1
    /\ gatewayCalls = 0
    /\ batches = 0
    /\ batchStart = <<>>
    /\ execLog = <<>>
    /\ batchExec = 0
    /\ requested = 0
    /\ weatherData = <<>>
    /\ httpGets = 0
    /\ smtpSends = 0

\* messages of the errors that can leave main()
ErrTooMany == "Too many tool-call iterations."
ErrUnknownTool(name) == "Unknown tool requested by model: " \o name
ErrCityRequired == "city is required"
ErrMissingSmtp ==
    "Missing SMTP config: SMTP_HOST, SMTP_PORT, SMTP_USER, SMTP_PASS, FROM_EMAIL"
\* ZodError of GetWeatherResultSchema.parse and of SendEmailParamsSchema.parse
ErrWeatherResult == "ZodError: degree_c: Expected number, received nan"
ErrEmailParams == "ZodError: invalid send_email parameters"
\* rejections of axios.get, transporter.sendMail and model.generateContent
ErrWeatherRequest == "Network Error"
ErrMailSubmission == "connect ECONNREFUSED"
ErrGateway == "fetch failed"
\* toolsMap[name] is no function
ErrNotCallable == "toolsMap[name] is not a function"

\* mutant: the handler prints the error but does not set the exit code
ThrowExitsZero(message) ==
    /\ pc' = "failed"
    /\ err' = message
    /\ stderr' = Append(stderr, "Failed: " \o message)
    /\ exitCode' = 0

\* an error leaves main(): main().catch prints it and exits with 1
Throw(message) ==
    /\ pc' = "failed"
    /\ err' = message
    /\ stderr' = Append(stderr, "Failed: " \o message)
    /\ exitCode' = 1

\* resp = await model.generateContent({ contents: history }) returns
GenerateContent ==
    /\ pc = "generate"
    /\ \E r \in Responses :
        /\ CallsDone + Len(extractFunctionCalls(r)) <= MaxToolCalls
        /\ resp' = r
    /\ gatewayCalls' = gatewayCalls + 1
    /\ pc' = "loop"
    /\ UNCHANGED <<env, argv, history, safetyCounter, idx, err, stdout, stderr,
                   exitCode, batches, batchStart, execLog, batchExec, weatherData,
                   httpGets, smtpSends, requested>>

\* model.generateContent rejects (network or API error)
GenerateContentFails ==
    /\ pc = "generate"
    /\ gatewayCalls' = gatewayCalls + 1
    /\ Throw(ErrGateway)
    /\ UNCHANGED <<env, argv, history, resp, safetyCounter, idx, stdout,
                   batches, batchStart, execLog, batchExec, weatherData,
                   httpGets, smtpSends, requested>>

\* the head of the while loop: the counter check, extractFunctionCalls, the
\* break with the final console.log, or the entry into the for..of loop
LoopHead ==
    /\ pc = "loop"
    /\ safetyCounter' = safetyCounter + 1
    /\ IF BoundExceeded(safetyCounter + 1)
       THEN /\ Throw(ErrTooMany)
            /\ UNCHANGED <<idx, stdout, batches, batchStart, batchExec, requested>>
       ELSE IF extractFunctionCalls(resp) = <<>>
       THEN /\ pc' = "done"
            /\ stdout' = Append(stdout, FinalText(resp))
            /\ exitCode' = 0
            /\ UNCHANGED <<idx, err, stderr, batches, batchStart, batchExec,
                           requested>>
       ELSE /\ pc' = "for"
            /\ idx' = 1
            /\ batches' = batches + 1
            /\ batchStart' = history
            /\ batchExec' = 0
            /\ requested' = requested + Len(extractFunctionCalls(resp))
            /\ UNCHANGED <<err, stdout, stderr, exitCode>>
    /\ UNCHANGED <<env, argv, history, resp, gatewayCalls, execLog, weatherData,
                   httpGets, smtpSends>>

\* mutant: the batch is walked from its last call to its first
CurrentCallReversed ==
    extractFunctionCalls(resp)[Len(extractFunctionCalls(resp)) - idx + 1]

\* the call the for..of loop is at
CurrentCall == extractFunctionCalls(resp)[idx]

\* call.args || {}
ArgsOf(call) == IF "args" \in DOMAIN call THEN call.args ELSE EmptyArgs

\* mutant: the model is asked again as soon as one call of the batch is through
AdvanceAfterFirst == pc' = "generate" /\ idx' = 0

\* the step of the for..of loop past the current call
Advance ==
    IF idx = Len(extractFunctionCalls(resp))
    THEN pc' = "generate" /\ idx' = 0
    ELSE pc' = "for" /\ idx' = idx + 1

\* mutant: the turns are pushed for the first call of a batch only
PushResultOncePerBatch(call, result) ==
    /\ history' = IF idx = 1
                  THEN history \o
                         <<[role |-> "model", parts |-> <<CallPart(call)>>],
                           [role |-> "tool",
                            parts |-> <<buildFunctionResponsePart(call.name, result)>>]>>
                  ELSE history
    /\ Advance
    /\ UNCHANGED <<err, stderr, exitCode>>

\* mutant: history is assigned the seed and the latest two turns, not pushed to
PushResultResets(call, result) ==
    /\ history' = <<history[1],
                    [role |-> "model", parts |-> <<CallPart(call)>>],
                    [role |-> "tool",
                     parts |-> <<buildFunctionResponsePart(call.name, result)>>]>>
    /\ Advance
    /\ UNCHANGED <<err, stderr, exitCode>>

\* the two history.push of the loop body, and the step to the next call or,
\* after the last one, to the next generateContent
PushResult(call, result) ==
    /\ history' = history \o
          <<[role |-> "model", parts |-> <<CallPart(call)>>],
            [role |-> "tool", parts |-> <<buildFunctionResponsePart(call.name, result)>>]>>
    /\ Advance
    /\ UNCHANGED <<err, stderr, exitCode>>

\* mutant: the rejection is caught, pushed as a failed result, and the loop goes on
ToolThrowsAsResult(message) ==
    /\ history' = history \o
          <<[role |-> "model", parts |-> <<CallPart(CurrentCall)>>],
            [role |-> "tool",
             parts |-> <<buildFunctionResponsePart(CurrentCall.name,
                                                   [errorMessage |-> message])>>]>>
    /\ Advance
    /\ UNCHANGED <<err, stderr, exitCode>>

\* mutant: the rejection leaves main(), but a failed result is pushed first
ToolThrowsLeavesTurn(message) ==
    /\ Throw(message)
    /\ history' = history \o
          <<[role |-> "model", parts |-> <<CallPart(CurrentCall)>>],
            [role |-> "tool",
             parts |-> <<buildFunctionResponsePart(CurrentCall.name,
                                                   [errorMessage |-> message])>>]>>
    /\ UNCHANGED idx

\* mutant: the rejection is swallowed and the call skipped
ToolThrowsSkips(message) ==
    /\ Advance
    /\ UNCHANGED <<history, err, stderr, exitCode>>

\* mutant: the rejection is caught and printed, and the loop goes on
ToolThrowsContinues(message) ==
    /\ err' = message
    /\ stderr' = Append(stderr, "Failed: " \o message)
    /\ exitCode' = 1
    /\ Advance
    /\ UNCHANGED history

\* mutant: the model turn of the call is pushed before the executor is awaited
ToolThrowsAfterModelTurn(message) ==
    /\ Throw(message)
    /\ history' = Append(history, [role |-> "model", parts |-> <<CallPart(CurrentCall)>>])
    /\ UNCHANGED idx

\* mutant: a rejection takes back the turns the batch has pushed so far
ToolThrowsRollsBack(message) ==
    /\ Throw(message)
    /\ history' = batchStart
    /\ UNCHANGED idx

\* the tool rejected: nothing is pushed, the error leaves main()
ToolThrows(message) ==
    /\ Throw(message)
    /\ UNCHANGED <<history, idx>>

\* the observer's record of one executor invocation: error is "" when it returned
Logged(name, outcome, error) ==
    Append(execLog, [name |-> name, outcome |-> outcome, error |-> error])

\* if (!(name in toolsMap)) throw
UnknownTool ==
    /\ pc = "for"
    /\ ~InToolsMap(CurrentCall.name)
    /\ Throw(ErrUnknownTool(CurrentCall.name))
    /\ UNCHANGED <<env, argv, history, resp, safetyCounter, idx, stdout, gatewayCalls,
                   batches, batchStart, execLog, batchExec, weatherData,
                   httpGets, smtpSends, requested>>

\* await toolsMap.get_weather(args) and the pushes that follow it
CallGetWeather ==
    /\ pc = "for"
    /\ InToolsMap(CurrentCall.name)
    /\ CurrentCall.name = "get_weather"
    /\ LET city == Arg(ArgsOf(CurrentCall), "city")
       IN  IF ~Truthy(city) \/ city.t # "string"
           THEN /\ ToolThrows(ErrCityRequired)
                /\ execLog' = Logged("get_weather", "threw", ErrCityRequired)
                /\ UNCHANGED <<httpGets, weatherData>>
           ELSE /\ httpGets' = httpGets + 1
                /\ \/ /\ ToolThrows(ErrWeatherRequest)
                      /\ execLog' = Logged("get_weather", "threw", ErrWeatherRequest)
                      /\ weatherData' = <<>>
                   \/ \E data \in WeatherTexts :
                        LET obj == WeatherObject(city, data)
                        IN  /\ weatherData' = data
                            /\ IF GetWeatherResultSchemaAccepts(obj)
                               THEN /\ PushResult(CurrentCall, obj)
                                    /\ execLog' = Logged("get_weather", "returned", "")
                               ELSE /\ ToolThrows(ErrWeatherResult)
                                    /\ execLog' = Logged("get_weather", "threw", ErrWeatherResult)
    /\ batchExec' = batchExec + 1
    /\ UNCHANGED <<env, argv, resp, safetyCounter, stdout, gatewayCalls, batches,
                   batchStart, smtpSends, requested>>

\* await toolsMap.send_email(args) and the pushes that follow it
CallSendEmail ==
    /\ pc = "for"
    /\ InToolsMap(CurrentCall.name)
    /\ CurrentCall.name = "send_email"
    /\ IF SmtpConfigMissing(env)
       THEN /\ ToolThrows(ErrMissingSmtp)
            /\ execLog' = Logged("send_email", "threw", ErrMissingSmtp)
            /\ UNCHANGED smtpSends
       ELSE IF ~SendEmailParamsSchemaAccepts(ArgsOf(CurrentCall))
       THEN /\ ToolThrows(ErrEmailParams)
            /\ execLog' = Logged("send_email", "threw", ErrEmailParams)
            /\ UNCHANGED smtpSends
       ELSE /\ smtpSends' = smtpSends + 1
            /\ \/ /\ ToolThrows(ErrMailSubmission)
                  /\ execLog' = Logged("send_email", "threw", ErrMailSubmission)
               \/ /\ PushResult(CurrentCall, [messageId |-> smtpSends + 1])
                  /\ execLog' = Logged("send_email", "returned", "")
    /\ batchExec' = batchExec + 1
    /\ UNCHANGED <<env, argv, resp, safetyCounter, stdout, gatewayCalls, batches,
                   batchStart, weatherData, httpGets, requested>>

\* await toolsMap[name](args) for a name toolsMap only inherits:
\* Object.prototype.toString returns "[object Object]"; a property that is
\* no function makes the call throw a TypeError
CallInherited ==
    /\ pc = "for"
    /\ InToolsMap(CurrentCall.name)
    /\ CurrentCall.name \notin ToolNames
    /\ IF CurrentCall.name \in InheritedFunctions
       THEN /\ PushResult(CurrentCall, Str("[object Object]"))
            /\ execLog' = Logged(CurrentCall.name, "returned", "")
            /\ batchExec' = batchExec + 1
       ELSE /\ ToolThrows(ErrNotCallable)
            /\ UNCHANGED <<execLog, batchExec>>
    /\ UNCHANGED <<env, argv, resp, safetyCounter, stdout, gatewayCalls, batches,
                   batchStart, weatherData, httpGets, smtpSends, requested>>

Next ==
    \/ GenerateContent
    \/ GenerateContentFails
    \/ LoopHead
    \/ UnknownTool
    \/ CallGetWeather
    \/ CallSendEmail
    \/ CallInherited

Spec == Init /\ [][Next]_vars

(***************************************************************************)
(* Vocabulary of the properties                                            *)
(***************************************************************************)
DONE == pc = "done"
FAILED == pc = "failed"

\* the function calls of the response the loop holds
Calls == extractFunctionCalls(resp)

\* the for..of loop of the latest batch ran to its end
BatchDone == pc = "generate" /\ batches >= 1

\* main() was rejected from inside the for..of loop
FailedInBatch == pc = "failed" /\ idx >= 1

IsPrefix(a, b) == Len(a) <= Len(b) /\ SubSeq(b, 1, Len(a)) = a

Returned == {i \in 1..Len(execLog) : execLog[i].outcome = "returned"}
Threw == {i \in 1..Len(execLog) : execLog[i].outcome = "threw"}

ToolTurns == {i \in 1..Len(history) : history[i].role = "tool"}

ValidationErrors == {ErrCityRequired, ErrWeatherResult, ErrEmailParams}
RuntimeErrors == {ErrWeatherRequest, ErrMailSubmission}

NoTemperature(data) == TempMatch(Trim(data)).from = 0

(***************************************************************************)
(* C1                                                                      *)
(***************************************************************************)
\* C1: the loop makes at most 7 model calls and dispatches at most 6 batches;
\* after the 6th batch the 7th response is never dispatched: the 7th pass
\* fails with 'Too many tool-call iterations.', and that error arises only
\* there, after exactly 7 model calls and 6 batches; DONE is reached only
\* from a response without function calls, so a run whose responses all
\* request tools and whose executors all succeed ends in that failure.
C1_BoundAtSeventhPass ==
    /\ gatewayCalls <= 7
    /\ batches <= 6
    /\ (DONE => Calls = <<>>)
    /\ (pc = "loop" /\ batches = 6 => gatewayCalls = 7 /\ safetyCounter = 6)
    /\ (safetyCounter = 7 =>
          FAILED /\ err = ErrTooMany /\ gatewayCalls = 7 /\ batches = 6)
    /\ (err = ErrTooMany => safetyCounter = 7)

C1_Witness ==
    /\ FAILED /\ err = ErrTooMany
    /\ gatewayCalls = 7 /\ batches = 6
    /\ Calls # <<>>
    /\ Len(execLog) >= 6
    /\ Threw = {}

(***************************************************************************)
(* C2                                                                      *)
(***************************************************************************)
\* C2: a response without function calls always ends the run in DONE with
\* that response's text printed, however many batches (0 to 6) came before
\* it, and the iteration-bound failure is raised only from a response that
\* requests tool calls.  Stated of the runs that invoked registered tools only.
C2_FinalTextAlwaysDone ==
    (\A i \in 1..Len(execLog) : execLog[i].name \in ToolNames) =>
        /\ ((DONE \/ FAILED) /\ resp # NoResponse /\ Calls = <<>> =>
              DONE /\ stdout = <<FinalText(resp)>>)
        /\ (err = ErrTooMany => Calls # <<>>)

(***************************************************************************)
(* C3                                                                      *)
(***************************************************************************)
\* C3 as stated: a processed batch adds exactly two turns (one model Turn,
\* one tool Turn) whatever its number of requests, the earlier turns kept.
C3_TwoTurnsPerBatch ==
    BatchDone =>
        /\ Len(history) = Len(batchStart) + 2
        /\ IsPrefix(batchStart, history)

\* C3 amended: a processed batch of k requests adds exactly 2k turns, a
\* model Turn followed by a tool Turn for each request in order, and the
\* turns present before the batch keep their position and content (this
\* also holds after each request inside the batch).
C3_TwoTurnsPerRequest ==
    /\ BatchDone =>
        /\ Len(history) = Len(batchStart) + 2 * Len(Calls)
        /\ IsPrefix(batchStart, history)
        /\ \A j \in 1..Len(Calls) :
            /\ history[Len(batchStart) + 2 * j - 1] =
                 [role |-> "model", parts |-> <<CallPart(Calls[j])>>]
            /\ history[Len(batchStart) + 2 * j].role = "tool"
            /\ history[Len(batchStart) + 2 * j].parts[1].functionResponse.name
                 = Calls[j].name
    /\ pc = "for" =>
        /\ Len(history) = Len(batchStart) + 2 * (idx - 1)
        /\ IsPrefix(batchStart, history)

C3_Witness ==
    /\ BatchDone
    /\ Len(Calls) = 2
    /\ Len(batchStart) >= 3
    /\ Len(history) = Len(batchStart) + 4

(***************************************************************************)
(* C4                                                                      *)
(***************************************************************************)
\* C4: when a dispatched batch holds a request whose name is not one of the
\* registered tools, at any position, no executor is invoked for any
\* request of that batch and the batch never completes (the run fails).
C4_UnknownToolStopsBatch ==
    (/\ pc = "for" \/ BatchDone \/ FailedInBatch
     /\ \E i \in 1..Len(Calls) : Calls[i].name \notin ToolNames)
    => (batchExec = 0 /\ ~BatchDone)

(***************************************************************************)
(* C5                                                                      *)
(***************************************************************************)
\* C5: a request whose name is neither 'get_weather' nor 'send_email' is
\* never dispatched to a function, never answered by a tool Turn and never
\* skipped: the run fails on it with the unknown-tool error.
C5_OnlyRegisteredToolsRun ==
    /\ \A i \in 1..Len(execLog) : execLog[i].name \in ToolNames
    /\ \A i \in ToolTurns :
          history[i].parts[1].functionResponse.name \in ToolNames
    /\ (BatchDone => \A i \in 1..Len(Calls) : Calls[i].name \in ToolNames)
    /\ (FailedInBatch /\ CurrentCall.name \notin ToolNames =>
          err = ErrUnknownTool(CurrentCall.name))

(***************************************************************************)
(* C6                                                                      *)
(***************************************************************************)
\* C6 as stated: a schema validation failure of a tool's input or output
\* does not fail the run.
C6_ValidationNotFatal == ~(FAILED /\ err \in ValidationErrors)

\* C6 amended: a schema validation failure of a tool's input or output
\* (get_weather without a non-empty string city, send_email with a
\* non-email recipient or an empty subject or body, a weather result the
\* result schema rejects) fails the run: the error leaves the loop, the
\* invocation is the last one, nothing is appended to the history for it,
\* the model is not called again and the process exits with 1.
C6_ValidationFatal ==
    \A i \in 1..Len(execLog) :
        execLog[i].error \in ValidationErrors =>
            /\ i = Len(execLog)
            /\ FAILED /\ err = execLog[i].error /\ exitCode = 1
            /\ Len(history) = Len(batchStart) + 2 * (idx - 1)
            /\ Len(history) = 1 + 2 * Cardinality(Returned)
            /\ gatewayCalls = batches

C6_Witness ==
    /\ FAILED
    /\ err = ErrEmailParams
    /\ Len(history) >= 3
    /\ smtpSends = 0

(***************************************************************************)
(* C7                                                                      *)
(***************************************************************************)
\* C7: with any one of the five mail settings absent, no mail submission is
\* ever attempted, whatever the arguments of the request, and a send_email
\* invocation is the last executor invocation of the run: it fails the run
\* with the missing-configuration error, with no model call after the one
\* that requested it.
C7_MissingConfigFailsFast ==
    (\E k \in {"SMTP_HOST", "SMTP_PORT", "SMTP_USER", "SMTP_PASS", "FROM_EMAIL"} :
        k \notin env) =>
        /\ smtpSends = 0
        /\ \A i \in 1..Len(execLog) :
              execLog[i].name = "send_email" =>
                  /\ i = Len(execLog)
                  /\ execLog[i].error = ErrMissingSmtp
                  /\ FAILED /\ err = ErrMissingSmtp /\ exitCode = 1
                  /\ gatewayCalls = batches

C7_Witness ==
    /\ Cardinality(env) = 4
    /\ FAILED /\ err = ErrMissingSmtp
    /\ ~SendEmailParamsSchemaAccepts(ArgsOf(CurrentCall))
    /\ httpGets >= 1
    /\ smtpSends = 0

(***************************************************************************)
(* C8                                                                      *)
(***************************************************************************)
\* C8 as stated: every executor invocation, returned or thrown, has its
\* ToolResult in a tool Turn of the history; with the mail settings absent
\* the history ends with a failed send_email result.
C8_EveryInvocationRecorded ==
    /\ Cardinality(ToolTurns) = Len(execLog)
    /\ (err = ErrMissingSmtp =>
          history[Len(history)].role = "tool")

\* C8 amended: every executor invocation that returns has its result
\* appended, as a model Turn and a tool Turn, before the loop takes any
\* other step, so the tool Turns are exactly the returned invocations in
\* order; an invocation that throws appends nothing, is the last one and
\* fails the run with its error; in particular a send_email invocation with
\* the mail settings absent leaves no turn in the history.
C8_ReturnedInvocationsRecorded ==
    /\ Len(history) = 1 + 2 * Cardinality(Returned)
    /\ \A i \in 1..Len(execLog) :
          IF execLog[i].outcome = "returned"
          THEN /\ history[2 * i].role = "model"
               /\ history[2 * i + 1].role = "tool"
               /\ history[2 * i + 1].parts[1].functionResponse.name = execLog[i].name
          ELSE /\ i = Len(execLog)
               /\ FAILED /\ err = execLog[i].error
    /\ (err = ErrMissingSmtp =>
          /\ Len(history) = Len(batchStart) + 2 * (idx - 1)
          /\ \A i \in ToolTurns :
                history[i].parts[1].functionResponse.name # "send_email")

C8_Witness ==
    /\ FAILED /\ err = ErrMissingSmtp
    /\ Len(execLog) = 2
    /\ Len(history) = 3

(***************************************************************************)
(* C9                                                                      *)
(***************************************************************************)
\* C9: when the weather fetch or the mail submission fails at run time, the
\* run is FAILED with that error: the invocation is the last one, no model
\* call follows the one that requested it, nothing was printed as final
\* text and the exit code is 1.
C9_RuntimeFailureFatal ==
    \A i \in 1..Len(execLog) :
        execLog[i].error \in RuntimeErrors =>
            /\ i = Len(execLog)
            /\ FAILED /\ err = execLog[i].error
            /\ exitCode = 1
            /\ stdout = <<>>
            /\ gatewayCalls = batches

C9_Witness ==
    /\ FAILED /\ err = ErrMailSubmission
    /\ smtpSends = 2
    /\ httpGets >= 1

(***************************************************************************)
(* C10                                                                     *)
(***************************************************************************)
\* C10: when the weather service's text holds no temperature pattern, the
\* get_weather invocation returns a result with degree_c not-a-number that
\* is appended as a tool Turn, and the run is not failed by it.
C10_MissingTemperatureTolerated ==
    (weatherData # <<>> /\ NoTemperature(weatherData)) =>
        /\ ~(FAILED /\ err = ErrWeatherResult)
        /\ \E i \in ToolTurns :
              /\ history[i].parts[1].functionResponse.name = "get_weather"
              /\ history[i].parts[1].functionResponse.response.degree_c.nan

(***************************************************************************)
(* C11                                                                     *)
(***************************************************************************)
\* the final text was obtained or a fatal error was raised
Terminated == stdout # <<>> \/ err # ""

\* C11: DONE and FAILED are absorbing: the final text is obtained exactly in
\* DONE and a fatal error raised exactly in FAILED, and from then on no step
\* makes a model call, invokes an executor, issues a weather read or a mail
\* submission, extends the history or leaves the terminal state.
C11_TerminalAbsorbing ==
    /\ [](Terminated <=> (DONE \/ FAILED))
    /\ [][Terminated =>
            /\ UNCHANGED <<gatewayCalls, execLog, batchExec, httpGets, smtpSends>>
            /\ UNCHANGED <<history, pc>>]_vars

C11_Witness ==
    /\ FAILED /\ err = ErrWeatherRequest
    /\ gatewayCalls = 3
    /\ Len(history) = 5

(***************************************************************************)
(* C12                                                                     *)
(***************************************************************************)
\* C12: the two outcomes exclude each other: in DONE, and only there, the
\* final text of the last response is what was printed, nothing went to the
\* error stream and the exit code is 0; in FAILED, and only there, exactly
\* one diagnostic carrying the error's message was printed, no final text
\* was printed and the exit code is 1; before that nothing is printed.
C12_ExclusiveOutcomes ==
    /\ (DONE =>
          /\ stdout = <<FinalText(resp)>> /\ stderr = <<>>
          /\ exitCode = 0 /\ err = "")
    /\ (FAILED =>
          /\ stdout = <<>> /\ stderr = <<"Failed: " \o err>>
          /\ exitCode = 1 /\ err # "")
    /\ (~(DONE \/ FAILED) =>
          stdout = <<>> /\ stderr = <<>> /\ exitCode = -1 /\ err = "")
    /\ (exitCode = 0 => DONE)

C12_Witness ==
    /\ DONE
    /\ exitCode = 0
    /\ stdout = <<"Email sent.\nBye.">>
    /\ smtpSends >= 1

(***************************************************************************)
(* C13                                                                     *)
(***************************************************************************)
\* the Turn that seeds the history, built from the command line
SeedTurn == [role |-> "user", parts |-> <<TextPart(userPrompt(argv))>>]

\* C13: the history is append-only: it starts as exactly the one user Turn
\* built from the run's input, and every step leaves the history it found as
\* a prefix of the history it leaves, so no turn is removed, reordered or
\* changed and the user Turn stays first.
C13_HistoryAppendOnly ==
    /\ history = <<SeedTurn>>
    /\ [](Len(history) >= 1 /\ history[1] = SeedTurn)
    /\ [][IsPrefix(history, history') /\ argv' = argv]_vars

C13_Witness ==
    /\ FAILED /\ err = ErrTooMany
    /\ Len(history) >= 13
    /\ SubSeq(history, 1, Len(batchStart)) = batchStart

(***************************************************************************)
(* C14                                                                     *)
(***************************************************************************)
\* the three answers of the model gateway in the scenario
GetWeatherParis == FunctionCall("get_weather", [city |-> Str("Paris")])
SendEmailToAB == FunctionCall("send_email", Mail("a@b.com", "Weather", "Partly cloudy, 15 C"))
AnswerWeather == WithParts(<<CallPart(GetWeatherParis)>>)
AnswerEmail == WithParts(<<CallPart(SendEmailToAB)>>)
AnswerText == WithParts(<<TextPart("Email sent.")>>)

\* the get_weather result the scenario expects
ParisResult ==
    [city |-> Str("Paris"),
     degree_c |-> Finite(15),
     condition |-> [defined |-> TRUE,
                    s |-> <<"P", "a", "r", "t", "l", "y", " ", "c", "l", "o", "u", "d", "y">>]]

\* the histories the scenario expects after the first and the second tool
HistoryAfterWeather ==
    <<SeedTurn,
      [role |-> "model", parts |-> <<[functionCall |-> GetWeatherParis]>>],
      [role |-> "tool",
       parts |-> <<[functionResponse |-> [name |-> "get_weather", response |-> ParisResult]]>>]>>
HistoryAfterEmail ==
    HistoryAfterWeather \o
    <<[role |-> "model", parts |-> <<[functionCall |-> SendEmailToAB]>>],
      [role |-> "tool",
       parts |-> <<[functionResponse |-> [name |-> "send_email",
                                          response |-> [messageId |-> 1]]]>>]>>

WeatherReturned == [name |-> "get_weather", outcome |-> "returned", error |-> ""]
EmailReturned == [name |-> "send_email", outcome |-> "returned", error |-> ""]

\* a state of the scenario: Paris and a@b.com on the command line, the mail
\* settings present, and the run where the scenario puts it
ScenarioAt(position, calls, r, turns, log, gets, sends) ==
    /\ argv.city = "Paris" /\ argv.to = "a@b.com"
    /\ env = MailSettings
    /\ pc = position
    /\ gatewayCalls = calls
    /\ resp = r
    /\ history = turns
    /\ execLog = log
    /\ httpGets = gets
    /\ smtpSends = sends
    /\ stdout = <<>> /\ stderr = <<>> /\ err = ""

ScenarioStart == ScenarioAt("generate", 0, NoResponse, <<SeedTurn>>, <<>>, 0, 0)
ScenarioAsked1 == ScenarioAt("loop", 1, AnswerWeather, <<SeedTurn>>, <<>>, 0, 0)
ScenarioBatch1 == ScenarioAt("for", 1, AnswerWeather, <<SeedTurn>>, <<>>, 0, 0) /\ idx = 1
ScenarioWeather ==
    ScenarioAt("generate", 1, AnswerWeather, HistoryAfterWeather, <<WeatherReturned>>, 1, 0)
ScenarioAsked2 ==
    ScenarioAt("loop", 2, AnswerEmail, HistoryAfterWeather, <<WeatherReturned>>, 1, 0)
ScenarioBatch2 ==
    ScenarioAt("for", 2, AnswerEmail, HistoryAfterWeather, <<WeatherReturned>>, 1, 0)
      /\ idx = 1
ScenarioEmail ==
    ScenarioAt("generate", 2, AnswerEmail, HistoryAfterEmail,
               <<WeatherReturned, EmailReturned>>, 1, 1)
ScenarioAsked3 ==
    ScenarioAt("loop", 3, AnswerText, HistoryAfterEmail,
               <<WeatherReturned, EmailReturned>>, 1, 1)
ScenarioDone ==
    /\ DONE
    /\ gatewayCalls = 3
    /\ resp = AnswerText
    /\ history = HistoryAfterEmail
    /\ execLog = <<WeatherReturned, EmailReturned>>
    /\ httpGets = 1 /\ smtpSends = 1
    /\ stdout = <<"Email sent.">> /\ stderr = <<>> /\ exitCode = 0

\* C14: the scenario as a trace: started with Paris and a@b.com, when the
\* model gateway answers get_weather(Paris), then send_email, then text, the
\* weather service answers "Partly cloudy +15 deg C" and the relay accepts the
\* mail, every step of the run leads to the scenario's next state: 3 gateway
\* calls, get_weather then send_email invoked, the recorded weather result
\* {city Paris, degree_c 15, condition Partly cloudy}, and DONE with the
\* closing text printed and exit code 0.
C14_ScenarioTrace ==
    [][/\ (ScenarioStart /\ resp' = AnswerWeather) => ScenarioAsked1'
       /\ ScenarioAsked1 => ScenarioBatch1'
       /\ (ScenarioBatch1 /\ weatherData' = PartlyCloudy15) => ScenarioWeather'
       /\ (ScenarioWeather /\ resp' = AnswerEmail) => ScenarioAsked2'
       /\ ScenarioAsked2 => ScenarioBatch2'
       /\ (ScenarioBatch2 /\ err' # ErrMailSubmission) => ScenarioEmail'
       /\ (ScenarioEmail /\ resp' = AnswerText) => ScenarioAsked3'
       /\ ScenarioAsked3 => ScenarioDone'
       /\ ScenarioDone => UNCHANGED vars]_vars

C14_Witness == ScenarioDone /\ weatherData = PartlyCloudy15 /\ batches = 2

(***************************************************************************)
(* C15                                                                     *)
(***************************************************************************)
\* how many requests of the batch at hand have been executed with their
\* result appended
Settled ==
    IF pc = "for" \/ FailedInBatch THEN idx - 1
    ELSE IF BatchDone THEN Len(Calls)
    ELSE 0

\* turns k and k+1 past the start of the batch record request j and its result
PairRecords(k, j) ==
    /\ history[k] = [role |-> "model", parts |-> <<[functionCall |-> Calls[j]]>>]
    /\ history[k + 1].role = "tool"
    /\ Len(history[k + 1].parts) = 1
    /\ history[k + 1].parts[1].functionResponse.name = Calls[j].name

\* C15: within a batch the executors run one at a time in the order of the
\* requests: while the loop is at request i (about to invoke its executor),
\* exactly the i-1 requests before it have been invoked, and the history is
\* the history the batch started with followed by their (request, result)
\* pairs in the order of the requests; when the batch is through, that holds
\* of all its requests, so the tool turns are in emission order.
C15_SequentialInOrder ==
    (pc = "for" \/ BatchDone \/ FailedInBatch) =>
        /\ batchExec \in {Settled, Settled + 1}
        /\ (pc = "for" \/ BatchDone) => batchExec = Settled
        /\ Len(execLog) >= batchExec
        /\ \A j \in 1..batchExec :
              execLog[Len(execLog) - batchExec + j].name = Calls[j].name
        /\ Len(history) = Len(batchStart) + 2 * Settled
        /\ IsPrefix(batchStart, history)
        /\ \A j \in 1..Settled : PairRecords(Len(batchStart) + 2 * j - 1, j)

C15_Witness ==
    /\ BatchDone
    /\ Len(Calls) = 2
    /\ Calls[1].name = "get_weather" /\ Calls[2].name = "send_email"
    /\ Len(history) = Len(batchStart) + 4
    /\ batchExec = 2

(***************************************************************************)
(* C16                                                                     *)
(***************************************************************************)
\* this step makes a call to the model gateway
GatewayCalled == gatewayCalls' = gatewayCalls + 1

\* C16: the calls to the model gateway are made one after the other, each
\* answer being taken up by a pass of the loop before the next call is made,
\* and every call after the first is made only when every request of the
\* preceding batch has been executed and its result appended, so the history
\* handed to it holds a (request, result) pair for every request of every
\* batch so far.
C16_OneGatewayCallAtATime ==
    /\ [](/\ pc = "loop" => gatewayCalls = safetyCounter + 1
          /\ pc \in {"generate", "for"} => gatewayCalls = safetyCounter)
    /\ [][/\ gatewayCalls' \in {gatewayCalls, gatewayCalls + 1}
          /\ GatewayCalled => (pc = "generate" /\ history' = history)
          /\ (GatewayCalled /\ gatewayCalls >= 1) =>
                /\ batchExec = Len(Calls)
                /\ Len(history) = Len(batchStart) + 2 * Len(Calls)
                /\ Len(history) = 1 + 2 * requested
                /\ Cardinality(ToolTurns) = requested]_vars

C16_Witness ==
    /\ pc = "loop"
    /\ gatewayCalls = 3
    /\ requested = 4
    /\ Len(history) = 9

(***************************************************************************)
(* C17                                                                     *)
(***************************************************************************)
\* the model turns appended since the batch at hand started
ModelTurnsOfBatch ==
    {k \in (Len(batchStart) + 1)..Len(history) : history[k].role = "model"}

\* C17 (as stated): whenever the loop is at a request of a batch, about to
\* invoke its executor or failed on it, the history already holds a model
\* Turn for that request as for the requests before it (looked at for the
\* requests of registered tools).
C17_ModelTurnBeforeDispatch ==
    ((pc = "for" \/ FailedInBatch) /\ CurrentCall.name \in ToolNames) =>
        Cardinality(ModelTurnsOfBatch) >= idx

\* C17 (amended): the model Turn of a request is appended only after its
\* executor has returned, together with the tool Turn: while the loop is at a
\* request, and also when its executor failed or its tool is unknown, the
\* history holds model Turns for the requests before it only, and every
\* model Turn in the history is directly followed by the tool Turn of the
\* same tool.
C17_ModelTurnAfterExecutor ==
    /\ (pc = "for" \/ FailedInBatch) =>
          /\ Cardinality(ModelTurnsOfBatch) = idx - 1
          /\ Len(history) = Len(batchStart) + 2 * (idx - 1)
    /\ \A k \in 1..Len(history) :
          history[k].role = "model" =>
              /\ k + 1 <= Len(history)
              /\ history[k + 1].role = "tool"
              /\ history[k + 1].parts[1].functionResponse.name
                   = history[k].parts[1].functionCall.name

C17_Witness ==
    /\ FailedInBatch
    /\ idx = 2
    /\ Len(execLog) >= 2 /\ execLog[Len(execLog)].outcome = "threw"
    /\ Cardinality(ModelTurnsOfBatch) = 1

(***************************************************************************)
(* C18                                                                     *)
(***************************************************************************)
\* the response at hand carries a text part and a function call part
MixedResponse ==
    /\ \E i \in 1..Len(PartsOf(resp)) : "text" \in DOMAIN PartsOf(resp)[i]
    /\ \E i \in 1..Len(PartsOf(resp)) : "functionCall" \in DOMAIN PartsOf(resp)[i]

\* the texts carried by the parts of a turn
TextsOf(turn) ==
    {turn.parts[i].text : i \in {j \in 1..Len(turn.parts) : "text" \in DOMAIN turn.parts[j]}}

\* C18: a response with both text and a function call counts as "function
\* calls present": the pass of the loop that takes it up enters the batch
\* (or fails on the bound) and never ends the run with its text, the run with
\* such a response at hand is never DONE and has printed nothing, no turn
\* after the user's carries any text, and the text printed at DONE is the
\* final text of a response without function calls.
C18_MixedResponseContinues ==
    /\ [](MixedResponse => (~DONE /\ stdout = <<>>))
    /\ [](\A k \in 2..Len(history) : TextsOf(history[k]) = {})
    /\ [](DONE => (~MixedResponse /\ stdout = <<FinalText(resp)>>))
    /\ [][(pc = "loop" /\ MixedResponse) =>
             \/ pc' = "for" /\ idx' = 1 /\ batches' = batches + 1
             \/ pc' = "failed" /\ err' = ErrTooMany]_vars
    /\ [][(BatchDone /\ MixedResponse) => GatewayCalled]_vars

C18_Witness ==
    /\ BatchDone
    /\ MixedResponse
    /\ Len(history) = 3
    /\ TextsOf(history[2]) = {}

(***************************************************************************)
(* C19                                                                     *)
(***************************************************************************)
\* the request carries a city that is a non-empty string
CityGiven(call) ==
    /\ "args" \in DOMAIN call
    /\ "city" \in DOMAIN call.args
    /\ call.args.city.t = "string"
    /\ call.args.city.v # ""

\* the request carries an email-shaped recipient, a subject and a body
MailGiven(call) ==
    /\ "args" \in DOMAIN call
    /\ {"toEmail", "subject", "body"} \subseteq DOMAIN call.args
    /\ \A k \in {"toEmail", "subject", "body"} :
          call.args[k].t = "string" /\ call.args[k].v # ""
    /\ IsEmail(call.args.toEmail.v)

\* executor invocations of a tool that did not end with one of the errors
PastValidation(name, errors) ==
    {i \in 1..Len(execLog) : execLog[i].name = name /\ execLog[i].error \notin errors}

\* C19: validation comes before every side effect: an HTTP request is made
\* only by a get_weather request whose city is a non-empty string, a mail is
\* submitted only by a send_email request with an email-shaped recipient and
\* non-empty subject and body; a request that lacks these ends the run with
\* the validation error and makes no outbound call; and the outbound calls
\* of a run are as many as the invocations that got past validation.
C19_ValidationBeforeSideEffect ==
    /\ [](/\ httpGets = Cardinality(PastValidation("get_weather", {ErrCityRequired}))
          /\ smtpSends = Cardinality(PastValidation("send_email",
                                                    {ErrMissingSmtp, ErrEmailParams})))
    /\ [][/\ httpGets' \in {httpGets, httpGets + 1}
          /\ smtpSends' \in {smtpSends, smtpSends + 1}
          /\ httpGets' # httpGets =>
                pc = "for" /\ CurrentCall.name = "get_weather" /\ CityGiven(CurrentCall)
          /\ smtpSends' # smtpSends =>
                pc = "for" /\ CurrentCall.name = "send_email" /\ MailGiven(CurrentCall)
          /\ (pc = "for" /\ CurrentCall.name = "get_weather" /\ ~CityGiven(CurrentCall)) =>
                /\ UNCHANGED <<httpGets, smtpSends, history>>
                /\ pc' = "failed" /\ err' = ErrCityRequired
          /\ (pc = "for" /\ CurrentCall.name = "send_email" /\ ~MailGiven(CurrentCall)) =>
                /\ UNCHANGED <<httpGets, smtpSends, history>>
                /\ pc' = "failed" /\ err' \in {ErrEmailParams, ErrMissingSmtp}]_vars

C19_Witness ==
    /\ FAILED /\ err = ErrEmailParams
    /\ httpGets = 1
    /\ smtpSends = 1
    /\ ~MailGiven(CurrentCall)

(***************************************************************************)
(* C20                                                                     *)
(***************************************************************************)
\* turns 2j and 2j+1 are a model Turn holding exactly one function call and
\* the tool Turn holding the response of the same tool
IsPair(j) ==
    LET m == history[2 * j]
        t == history[2 * j + 1]
    IN  /\ m.role = "model" /\ Len(m.parts) = 1
        /\ DOMAIN m.parts[1] = {"functionCall"}
        /\ t.role = "tool" /\ Len(t.parts) = 1
        /\ DOMAIN t.parts[1] = {"functionResponse"}
        /\ DOMAIN t.parts[1].functionResponse = {"name", "response"}
        /\ t.parts[1].functionResponse.name = m.parts[1].functionCall.name

\* C20: the history is always the user Turn followed by (model Turn, tool
\* Turn) pairs, one function call per model Turn and the response of the
\* same tool right after it; its length is 1 + 2 * (executor invocations that
\* returned), which never exceeds 1 + 2 * (requests of the dispatched
\* batches), and at most 6 batches are dispatched.
C20_HistoryShape ==
    /\ Len(history) >= 1
    /\ history[1].role = "user"
    /\ Len(history) = 1 + 2 * Cardinality(Returned)
    /\ \A j \in 1..Cardinality(Returned) :
          IsPair(j) /\ history[2 * j].parts[1].functionCall.name = execLog[j].name
    /\ Len(history) <= 1 + 2 * requested
    /\ batches <= MaxIterations

C20_Witness ==
    /\ batches = 6
    /\ requested = 7
    /\ Len(history) = 15
    /\ Cardinality(Returned) = 7

(***************************************************************************)
(* C21                                                                     *)
(***************************************************************************)
\* the entry of execLog for the k-th invocation of the batch at hand
BatchLog(k) == execLog[Len(execLog) - batchExec + k]

\* C21: when request j of a batch fails (unknown tool, or its executor
\* throws), the executors of requests 1..j-1 have returned and their (model,
\* tool) pairs follow the history the batch started with, nothing is in the
\* history for request j or a later one, no gateway call was made since the
\* batch was received, and none is made afterwards; the effects of requests
\* 1..j-1 stay, so a run can be FAILED with a mail already delivered.
C21_PartialBatchEffect ==
    /\ [](FailedInBatch =>
            /\ idx \in 1..Len(Calls)
            /\ batchExec \in {idx - 1, idx}
            /\ Len(history) = Len(batchStart) + 2 * (idx - 1)
            /\ IsPrefix(batchStart, history)
            /\ \A k \in 1..(idx - 1) :
                  /\ BatchLog(k).name = Calls[k].name
                  /\ BatchLog(k).outcome = "returned"
                  /\ PairRecords(Len(batchStart) + 2 * k - 1, k)
            /\ batchExec = idx =>
                  BatchLog(idx).outcome = "threw" /\ BatchLog(idx).error = err
            /\ gatewayCalls = batches)
    /\ [][FailedInBatch =>
            UNCHANGED <<gatewayCalls, history, execLog, httpGets, smtpSends>>]_vars

C21_Witness ==
    /\ FailedInBatch
    /\ idx = 2
    /\ Calls[1].name = "send_email"
    /\ smtpSends = 1
    /\ execLog[Len(execLog)] = EmailReturned
    /\ Len(history) = Len(batchStart) + 2
    /\ exitCode = 1

(***************************************************************************)
(* C22                                                                     *)
(***************************************************************************)
\* no function call can be extracted from the response at hand: it lacks
\* candidates, content or parts, or none of its parts is a functionCall
NoCallParts ==
    /\ resp # NoResponse
    /\ \A i \in 1..Len(PartsOf(resp)) : "functionCall" \notin DOMAIN PartsOf(resp)[i]

\* the response at hand carries no non-empty text
NoTextParts ==
    \A i \in 1..Len(PartsOf(resp)) :
        "text" \in DOMAIN PartsOf(resp)[i] => PartsOf(resp)[i].text = ""

\* C22: a response from which no function call can be extracted is always
\* terminal: the pass of the loop that takes it up dispatches nothing, leaves
\* the history alone and ends the run; when that pass is one of the first 6
\* (fewer than 7 passes made, this one counted) the run ends DONE with exit
\* code 0, printing the literal "Done." when the response carries no
\* non-empty text; the seventh pass ends the run with the bound's error.
C22_EmptyResponseIsTerminal ==
    /\ [][(pc = "loop" /\ NoCallParts) =>
            /\ pc' \in {"done", "failed"}
            /\ UNCHANGED <<history, gatewayCalls, execLog, batches, httpGets, smtpSends>>
            /\ safetyCounter < MaxIterations =>
                  /\ pc' = "done" /\ exitCode' = 0 /\ stderr' = <<>>
                  /\ Len(stdout') = 1
                  /\ NoTextParts => stdout' = <<"Done.">>
                  /\ ~NoTextParts => stdout'[1] # "Done."
            /\ safetyCounter >= MaxIterations =>
                  pc' = "failed" /\ err' = ErrTooMany /\ stdout' = <<>>]_vars
    /\ [](DONE => NoCallParts)
    /\ []((DONE /\ NoTextParts) => (stdout = <<"Done.">> /\ exitCode = 0))

C22_Witness ==
    /\ DONE
    /\ resp.shape = "noContent"
    /\ stdout = <<"Done.">>
    /\ exitCode = 0
    /\ safetyCounter = 6

====
